---- MODULE Spec2Model ----
(***************************************************************************)
(* The two loading-spinner widgets of FamousArchives/widgets.              *)
(*                                                                         *)
(*   ring widget  (Daniel Zaner's Spinner, a RenderController): a list of  *)
(*     tick opacity modifiers that a self-rescheduling Timer.setTimeout    *)
(*     callback rotates by one and re-paints (incrementSpinner).           *)
(*   line widget  (src/Spinner.js, a View): fixed spin lines whose opacity *)
(*     a Timer.setInterval callback recomputes from a phase counter t,     *)
(*     with fade/spin/reset on top of start/stop.                          *)
(*                                                                         *)
(* JavaScript is single threaded: every public method and every timer or   *)
(* transition callback runs to completion, so each is one action.  Time is *)
(* abstracted: a registered timer or a running transition may fire at any  *)
(* later step.                                                             *)
(*                                                                         *)
(* Opacities are kept exact as the numerator of a fraction by a fixed      *)
(* denominator: i/ticks + 0.1 is (10*i + ticks) / (10*ticks) and           *)
(* pos*pos*0.9 + 0.1 with pos = p/count is                                 *)
(* (9*p*p + count*count) / (10*count*count).                               *)
(***************************************************************************)
EXTENDS Integers, Sequences, FiniteSets, Bags, TLC

\* ---- bounds of the model ----
MaxN == 3
MaxStarts == 2
MaxT == 3
MaxTimeouts == 2
MaxCb == 1
MaxFadeQueue == 1

\* ---- program constants ----
OFF == 0
ON == 1
fadeDuration == 1000

Durations == {500}

VARIABLES
    widget,               \* which of the two Spinner classes was constructed
    N,                    \* options.ticks / options.lines
    rotation,             \* angular position of each tick, in degrees times N
    attached,             \* the ticks added to the render tree, as a bag
    spinnerState,         \* ring: this.spinnerState
    tickOpacityModifiers, \* ring: the array, as the sequence of tick ids it holds
    tickOpacity,          \* ring: opacity of each tick's opacityModifier
    showing,              \* ring: whether renderNode is shown by the RenderController
    timeouts,             \* ring: number of pending incrementSpinner timeouts
    spinLineModifiers,    \* line: opacity of each spinLineModifier
    rotateModifiers,      \* line: opacity of each rotateModifier (the fade opacity)
    fadeQueue,            \* line: per element, the queued opacity transitions
    spinInterval,         \* line: this.spinInterval (0 is undefined)
    timers,               \* line: interval handles registered with Timer
    t,                    \* line: the closure variable t of each registered interval
    nextHandle,           \* line: number of interval handles created so far
    stopTimeouts,         \* line: pending spin() timeouts, a bag of their bound cb
    nextCb,               \* number of callback functions the caller has made
    cbCalls,              \* how often each caller callback has been invoked
    error,                \* an exception escaped a handler
    lastOp                \* history: the operation or callback that ran last

vars == <<widget, N, rotation, attached, spinnerState, tickOpacityModifiers, tickOpacity, showing,
          timeouts, spinLineModifiers, rotateModifiers, fadeQueue, spinInterval,
          timers, t, nextHandle, stopTimeouts, nextCb, cbCalls, error, lastOp>>

ringVars == <<spinnerState, tickOpacityModifiers, tickOpacity, showing, timeouts>>
lineVars == <<spinLineModifiers, rotateModifiers, fadeQueue, spinInterval,
              timers, t, nextHandle, stopTimeouts>>

\* ---- JavaScript values passed as arguments ----
Undefined == [kind |-> "undefined", v |-> 0]
Fn(k) == [kind |-> "fn", v |-> k]
Num(d) == [kind |-> "num", v |-> d]
Truthy(x) == x.kind = "fn" \/ (x.kind = "num" /\ x.v # 0)

\* lastOp: the operation, its cb argument, the run state a stop() (or a ring
\* start()) found,
\* whether the interval in this.spinInterval was still registered when cb ran,
\* and whether a reset() found opacities that differ from those of construction
Op(o, cb, was, saw) == [op |-> o, cb |-> cb, was |-> was, saw |-> saw, dirty |-> FALSE]

Elems == 0 .. (N - 1)

\* ---- the falloff formulas ----
\* ring: i / this.options.ticks + 0.1, as a numerator by 10*ticks
RingOpacity(i, ticks) == 10 * i + ticks

\* line: _spinLineOpacity(i, t, count), as a numerator by 10*count*count
SpinLineOpacityNoWrap(i, tt, count) ==
    LET p == count - (count - i + tt)
    IN  9 * p * p + count * count
SpinLineOpacity(i, tt, count) ==
    LET p == count - ((count - i + tt) % count)
    IN  9 * p * p + count * count

\* position (0-based) of tick e in the array: the last one a loop over the
\* array visits
PosOf(arr, e) ==
    (CHOOSE p \in 1 .. Len(arr) :
        arr[p] = e /\ \A q \in 1 .. Len(arr) : arr[q] = e => q <= p) - 1

\* ---- construction ----
\* ring constructor: ticks pushed in index order, opacity i/ticks + 0.1
RingInitOpacity(ticks) == [i \in 0 .. (ticks - 1) |-> RingOpacity(i, ticks)]
RingInitArray(ticks) == [p \in 1 .. ticks |-> p - 1]

\* _createSpinLineSurfaces: opacity _spinLineOpacity(i, 0, count)
LineInitOpacityNext(count) == [i \in 0 .. (count - 1) |-> SpinLineOpacity(i, 1, count)]
LineInitOpacity(count) == [i \in 0 .. (count - 1) |-> SpinLineOpacity(i, 0, count)]

\* angleIncrement * i with angleIncrement = 360 / ticks (ring), and
\* rotationOffset * i with rotationOffset = 2 * Math.PI / count (line): the
\* angle of tick i in degrees, as a numerator by count
TickAngleHalf(i, count) == 180 * i
TickAngle(i, count) == 360 * i

\* the construction loop, for (var i = 0; i < count; i++): iteration i makes
\* tick i, places it and adds its chain of modifiers to the render tree
RECURSIVE CreateTicks(_, _, _)
CreateTicks(i, count, built) ==
    IF i < count
    THEN CreateTicks(i + 1, count,
                     [angle |-> built.angle @@ (i :> TickAngle(i, count)),
                      node  |-> built.node (+) SetToBag({i})])
    ELSE built

Constructed(count) == CreateTicks(0, count, [angle |-> <<>>, node |-> EmptyBag])

\* the state a constructor leaves, for an element count among counts
InitCount(counts) ==
    /\ widget \in {"ring", "line"}
    /\ N \in counts
    /\ rotation = Constructed(N).angle
    /\ attached = Constructed(N).node
    /\ spinnerState = OFF
    /\ tickOpacityModifiers = RingInitArray(N)
    /\ tickOpacity = RingInitOpacity(N)
    /\ showing = FALSE
    /\ timeouts = 0
    /\ spinLineModifiers = LineInitOpacity(N)
    /\ rotateModifiers = [i \in 0 .. (N - 1) |-> 1]
    /\ fadeQueue = [i \in 0 .. (N - 1) |-> <<>>]
    /\ spinInterval = 0
    /\ timers = {}
    /\ t = [h \in 1 .. MaxStarts |-> 0]
    /\ nextHandle = 0
    /\ stopTimeouts = EmptyBag
    /\ nextCb = 0
    /\ cbCalls = [k \in 1 .. MaxCb |-> 0]
    /\ error = FALSE
    /\ lastOp = Op("new", Undefined, FALSE, FALSE)

Init == InitCount(1 .. MaxN)

\* the callback arguments a caller can pass: none, or a function of its own
CbArgs == {Undefined} \cup (IF nextCb < MaxCb THEN {Fn(nextCb + 1)} ELSE {})
NoteCb(cb) == nextCb' = (IF cb.kind = "fn" THEN nextCb + 1 ELSE nextCb)

\* ======================= ring widget =======================

\* Spinner.prototype.start
RingStart ==
    /\ widget = "ring"
    /\ timeouts < MaxTimeouts
    /\ spinnerState' = ON
    /\ showing' = TRUE
    /\ timeouts' = timeouts + 1
    /\ lastOp' = Op("start", Undefined, spinnerState = ON, FALSE)
    /\ UNCHANGED <<widget, N, rotation, attached, tickOpacityModifiers, tickOpacity, lineVars,
                   nextCb, cbCalls, error>>

\* Spinner.prototype.stop: declared without parameters, an argument is ignored
RingStop(cb) ==
    /\ widget = "ring"
    /\ spinnerState' = OFF
    /\ showing' = FALSE
    /\ NoteCb(cb)
    /\ lastOp' = Op("stop", cb, spinnerState = ON, FALSE)
    /\ UNCHANGED <<widget, N, rotation, attached, tickOpacityModifiers, tickOpacity, timeouts,
                   lineVars, cbCalls, error>>

\* this.tickOpacityModifiers.push(this.tickOpacityModifiers.shift())
RotateKeep(arr) == arr \o <<Head(arr)>>
RotateBack(arr) == <<arr[Len(arr)]>> \o SubSeq(arr, 1, Len(arr) - 1)
Rotate(arr) == Tail(arr) \o <<Head(arr)>>

\* the loop of incrementSpinner: the modifier at position i gets i/ticks + 0.1
\* a modifier that is not in the array keeps the opacity it had
Repaint(arr, ticks, old) ==
    [e \in DOMAIN old |->
        IF \E p \in 1 .. Len(arr) : arr[p] = e
        THEN RingOpacity(PosOf(arr, e), ticks)
        ELSE old[e]]

\* k runs of the body of incrementSpinner on the array and the opacities
RECURSIVE TickTimes(_, _, _)
TickTimes(st, ticksOpt, k) ==
    IF k = 0 THEN st
    ELSE TickTimes([arr |-> Rotate(st.arr),
                    op  |-> Repaint(Rotate(st.arr), ticksOpt, st.op)],
                   ticksOpt, k - 1)

\* the tail of incrementSpinner: reschedule only while ON
RescheduleAlways(state) == 1
Reschedule(state) == IF state = ON THEN 1 ELSE 0

\* Spinner.prototype.incrementSpinner, run by a pending timeout
IncrementSpinner ==
    /\ widget = "ring"
    /\ timeouts > 0
    /\ tickOpacityModifiers' = Rotate(tickOpacityModifiers)
    /\ tickOpacity' = Repaint(tickOpacityModifiers', N, tickOpacity)
    /\ timeouts' = (timeouts - 1) + Reschedule(spinnerState)
    /\ lastOp' = Op("tick", Undefined, FALSE, FALSE)
    /\ UNCHANGED <<widget, N, rotation, attached, spinnerState, showing, lineVars,
                   nextCb, cbCalls, error>>

RingNext ==
    \/ RingStart
    \/ \E cb \in CbArgs : RingStop(cb)
    \/ IncrementSpinner

\* ======================= line widget =======================

\* the run state of the line widget: the interval held in this.spinInterval
\* is registered with the Timer
LineRunning == spinInterval \in timers

\* Spinner.prototype.start: a new interval, its own t = 0, the handle stored
StartBody(h) ==
    /\ timers' = timers \cup {h}
    /\ t' = [t EXCEPT ![h] = 0]
    /\ spinInterval' = h
    /\ nextHandle' = h

StartUnfade ==
    /\ widget = "line"
    /\ nextHandle < MaxStarts
    /\ StartBody(nextHandle + 1)
    /\ rotateModifiers' = [i \in Elems |-> 1]
    /\ lastOp' = Op("start", Undefined, FALSE, FALSE)
    /\ UNCHANGED <<widget, N, rotation, attached, ringVars, spinLineModifiers,
                   fadeQueue, stopTimeouts, nextCb, cbCalls, error>>
Start ==
    /\ widget = "line"
    /\ nextHandle < MaxStarts
    /\ StartBody(nextHandle + 1)
    /\ lastOp' = Op("start", Undefined, FALSE, FALSE)
    /\ UNCHANGED <<widget, N, rotation, attached, ringVars, spinLineModifiers, rotateModifiers,
                   fadeQueue, stopTimeouts, nextCb, cbCalls, error>>

\* the interval callback of start: every line gets _spinLineOpacity(i, t, count)
TickOpacityNoMod(i, tt, count) ==
    LET p == count - (count - i + tt)
    IN  9 * p * p + count * count
TickOpacity(i, tt, count) == SpinLineOpacity(i, tt, count)

Tick(h) ==
    /\ widget = "line"
    /\ h \in timers
    /\ t[h] < MaxT
    /\ spinLineModifiers' = [i \in Elems |-> TickOpacity(i, t[h], N)]
    /\ t' = [t EXCEPT ![h] = t[h] + 1]
    /\ lastOp' = Op("tick", Undefined, FALSE, FALSE)
    /\ UNCHANGED <<widget, N, rotation, attached, ringVars, rotateModifiers, fadeQueue, spinInterval,
                   timers, nextHandle, stopTimeouts, nextCb, cbCalls, error>>

\* if (this.spinInterval) Timer.clear(this.spinInterval)
StopTimersKeep(live, handle) == live
StopTimersNewest(live, handle) ==
    IF live = {} THEN live
    ELSE live \ {CHOOSE h \in live : \A g \in live : g <= h}
StopTimers(live, handle) == IF handle # 0 THEN live \ {handle} ELSE live

\* the closure of an interval that is no longer registered is unreachable
DropClosures(tt, live) == [h \in DOMAIN tt |-> IF h \in live THEN tt[h] ELSE 0]

\* if (cb) cb(): a function is called, any other truthy value throws a TypeError
Called(cb) == Truthy(cb) /\ cb.kind = "fn"
Throws(cb) == Truthy(cb) /\ cb.kind # "fn"

\* Spinner.prototype.stop: clear the interval, then if (cb) cb()
StopBody(cb) ==
    /\ timers' = StopTimers(timers, spinInterval)
    /\ t' = DropClosures(t, timers')
    /\ cbCalls' = IF Called(cb) THEN [cbCalls EXCEPT ![cb.v] = @ + 1] ELSE cbCalls
    /\ error' = (error \/ Throws(cb))

\* what cb, when it is called, sees of the interval in this.spinInterval
Saw(cb) == Called(cb) /\ spinInterval \in timers'

Stop(cb) ==
    /\ widget = "line"
    /\ StopBody(cb)
    /\ NoteCb(cb)
    /\ lastOp' = Op("stop", cb, LineRunning, Saw(cb))
    /\ UNCHANGED <<widget, N, rotation, attached, ringVars, spinLineModifiers, rotateModifiers,
                   fadeQueue, spinInterval, nextHandle, stopTimeouts>>

\* Spinner.prototype.spin: start(), then a timeout bound to stop(cb)
Spin(cb) ==
    /\ widget = "line"
    /\ nextHandle < MaxStarts
    /\ StartBody(nextHandle + 1)
    /\ stopTimeouts' = stopTimeouts (+) SetToBag({cb})
    /\ NoteCb(cb)
    /\ lastOp' = Op("spin", cb, FALSE, FALSE)
    /\ UNCHANGED <<widget, N, rotation, attached, ringVars, spinLineModifiers, rotateModifiers,
                   fadeQueue, cbCalls, error>>

\* the timeout of spin fires, once: this.stop(cb)
SpinStop(cb) ==
    /\ widget = "line"
    /\ BagIn(cb, stopTimeouts)
    /\ stopTimeouts' = stopTimeouts (-) SetToBag({cb})
    /\ StopBody(cb)
    /\ lastOp' = Op("spinStop", cb, FALSE, Saw(cb))
    /\ UNCHANGED <<widget, N, rotation, attached, ringVars, spinLineModifiers, rotateModifiers,
                   fadeQueue, spinInterval, nextHandle, nextCb>>

\* ---- fade ----
\* the argument lists a caller can pass to fade: (t, cb), (t) and (cb)
FadeArgs ==
    {<<Num(d), cb>> : d \in Durations, cb \in CbArgs}
        \cup {<<Num(d)>> : d \in Durations}
        \cup {<<cb>> : cb \in CbArgs \ {Undefined}}

\* if (arguments.length === 1) { cb = t; t = this.options.fadeDuration; }
FadeCb(args) ==
    IF Len(args) = 1 THEN args[1]
    ELSE IF Len(args) >= 2 THEN args[2] ELSE Undefined
FadeTime(args) ==
    IF Len(args) = 1 THEN Num(fadeDuration)
    ELSE IF Len(args) >= 2 THEN args[1] ELSE Undefined

\* the completion callback given to rotateModifiers[i].setOpacity:
\* i === 0 ? this.stop.bind(this, cb) : null
FadeCallback(i, cb) ==
    IF i = 0 THEN [stop |-> TRUE, cb |-> cb] ELSE [stop |-> FALSE, cb |-> Undefined]

\* Spinner.prototype.fade: every rotateModifier gets a transition to opacity 0,
\* queued behind the transitions it already runs
Fade(args) ==
    /\ widget = "line"
    /\ \A i \in Elems : Len(fadeQueue[i]) < MaxFadeQueue
    /\ fadeQueue' = [i \in Elems |->
                       Append(fadeQueue[i],
                              [done |-> FadeCallback(i, FadeCb(args))])]
    /\ nextCb' = (IF \E j \in 1 .. Len(args) : args[j].kind = "fn"
                  THEN nextCb + 1 ELSE nextCb)
    /\ lastOp' = Op("fade", FadeCb(args), FALSE, FALSE)
    /\ UNCHANGED <<widget, N, rotation, attached, ringVars, spinLineModifiers, rotateModifiers,
                   spinInterval, timers, t, nextHandle, stopTimeouts, cbCalls, error>>

\* the running transition of rotateModifiers[i] completes: the opacity is 0
\* and the completion callback, if any, runs
FadeDone(i) ==
    /\ widget = "line"
    /\ i \in Elems
    /\ fadeQueue[i] # <<>>
    /\ rotateModifiers' = [rotateModifiers EXCEPT ![i] = 0]
    /\ fadeQueue' = [fadeQueue EXCEPT ![i] = Tail(@)]
    /\ LET done == Head(fadeQueue[i]).done
       IN  /\ IF done.stop
              THEN StopBody(done.cb)
              ELSE UNCHANGED <<timers, t, cbCalls, error>>
           /\ lastOp' = Op("fadeDone", done.cb, FALSE, done.stop /\ Saw(done.cb))
    /\ UNCHANGED <<widget, N, rotation, attached, ringVars, spinLineModifiers, spinInterval,
                   nextHandle, stopTimeouts, nextCb>>

\* ---- reset ----
\* this.spinLineModifiers[i].setOpacity(_spinLineOpacity(i, 0, count))
ResetOpacityNext(i, count) == SpinLineOpacity(i, 1, count)
ResetOpacity(i, count) == SpinLineOpacity(i, 0, count)

\* Spinner.prototype.reset: phase 0 on every line, rotateModifiers[i].setOpacity(1)
\* (an immediate set, which drops the transitions queued on that modifier),
\* then this.stop(cb)
Reset(cb) ==
    /\ widget = "line"
    /\ spinLineModifiers' = [i \in Elems |-> ResetOpacity(i, N)]
    /\ rotateModifiers' = [i \in Elems |-> 1]
    /\ fadeQueue' = [i \in Elems |-> <<>>]
    /\ StopBody(cb)
    /\ NoteCb(cb)
    /\ lastOp' = [Op("reset", cb, FALSE, Saw(cb)) EXCEPT
                     !.dirty = /\ spinLineModifiers # LineInitOpacity(N)
                               /\ \E i \in Elems : rotateModifiers[i] # 1]
    /\ UNCHANGED <<widget, N, rotation, attached, ringVars, spinInterval, nextHandle, stopTimeouts>>

\* ---- specifications ----
\* Spec: either widget under start, stop, spin, reset and its timers.
\* SpecFade: the line widget under start, stop, fade, reset, its interval and
\* its opacity transitions, for a caller that starts only a stopped widget.
LineNext ==
    \/ Start
    \/ \E h \in 1 .. MaxStarts : Tick(h)
    \/ \E cb \in CbArgs : Stop(cb)
    \/ \E cb \in CbArgs : Spin(cb)
    \/ \E cb \in BagToSet(stopTimeouts) : SpinStop(cb)
    \/ \E cb \in CbArgs : Reset(cb)

Next == RingNext \/ LineNext

Spec == Init /\ [][Next]_vars

InitLine == Init /\ widget = "line"

StartStopped == ~LineRunning /\ Start

NextFade ==
    \/ StartStopped
    \/ \E h \in 1 .. MaxStarts : Tick(h)
    \/ \E cb \in CbArgs : Stop(cb)
    \/ \E args \in FadeArgs : Fade(args)
    \/ \E i \in 0 .. (MaxN - 1) : FadeDone(i)
    \/ \E cb \in CbArgs : Reset(cb)

SpecFade == InitLine /\ [][NextFade]_vars

\* SpecFrame: the line widget with every operation, called without callbacks,
\* a start() or spin() being issued only while the widget is stopped
SpinStopped(cb) == ~LineRunning /\ Spin(cb)

NextFrame ==
    \/ StartStopped
    \/ \E h \in 1 .. MaxStarts : Tick(h)
    \/ Stop(Undefined)
    \/ SpinStopped(Undefined)
    \/ \E cb \in BagToSet(stopTimeouts) : SpinStop(cb)
    \/ \E d \in Durations : Fade(<<Num(d), Undefined>>)
    \/ \E i \in 0 .. (MaxN - 1) : FadeDone(i)
    \/ Reset(Undefined)

SpecFrame == InitLine /\ [][NextFrame]_vars

\* SpecDefault: both widgets constructed without options, so with
\* DEFAULT_OPTIONS.ticks and DEFAULT_OPTIONS.lines
ticks == 12
lines == 12

InitDefault ==
    /\ InitCount({ticks, lines})
    /\ N = (IF widget = "ring" THEN ticks ELSE lines)

SpecDefault == InitDefault /\ [][Next]_vars

\* SpecSpin: the line widget driven by spin() calls only
NextSpin ==
    \/ \E cb \in CbArgs : Spin(cb)
    \/ \E cb \in BagToSet(stopTimeouts) : SpinStop(cb)
    \/ \E h \in 1 .. MaxStarts : Tick(h)

SpecSpin == InitLine /\ [][NextSpin]_vars

\* SpecRingFair: the ring widget, whose pending timeouts do fire
InitRing == Init /\ widget = "ring"

SpecRingFair == InitRing /\ [][RingNext]_vars /\ WF_vars(IncrementSpinner)

\* ======================= properties =======================

\* the run state: ring this.spinnerState, line the registration of spinInterval
Stopped == IF widget = "ring" THEN spinnerState = OFF ELSE ~LineRunning

\* the gradient opacities in angular order (tick i sits at angle i * step)
Gradient == IF widget = "ring" THEN tickOpacity ELSE spinLineModifiers
InitGradient == IF widget = "ring" THEN RingInitOpacity(N) ELSE LineInitOpacity(N)

\* C1 (as claimed): once stop() has returned, a tick callback scheduled before
\* the stop changes no opacity and not the order of the collection.
C1_NoTickAfterStop ==
    [][(lastOp'.op = "tick" /\ Stopped)
          => UNCHANGED <<tickOpacityModifiers, tickOpacity, spinLineModifiers>>]_vars

\* C2 (as claimed): start() on a running widget leaks no timer: while running
\* exactly one tick timer is live, and after a stop() of the line widget none.
C2_OneLiveTimer ==
    /\ widget = "line" =>
          /\ LineRunning => Cardinality(timers) = 1
          /\ lastOp.op = "stop" => timers = {}
    /\ widget = "ring" => (spinnerState = ON => timeouts = 1)

\* C3: spin(d, cb) leaves the line widget running; its timeout stops the
\* widget (the only interval, when this spin was the only start, is cancelled)
\* and calls cb once, after the interval was cleared, and never earlier.
C3_SpinRunsThenStopsOnce ==
    widget = "line" =>
       /\ lastOp.op = "spin" => LineRunning
       /\ lastOp.op = "spinStop" =>
             /\ ~LineRunning
             /\ nextHandle = 1 => timers = {}
             /\ lastOp.cb.kind = "fn" =>
                   cbCalls[lastOp.cb.v] = 1 /\ ~lastOp.saw
       /\ \A k \in 1 .. MaxCb :
             /\ BagIn(Fn(k), stopTimeouts) => cbCalls[k] = 0
             /\ cbCalls[k] <= 1

C3_Witness ==
    /\ widget = "line"
    /\ lastOp.op = "spinStop"
    /\ lastOp.cb.kind = "fn"
    /\ nextHandle = 1
    /\ cbCalls[lastOp.cb.v] = 1

\* C4 (as claimed): the callback of fade(d, cb) runs once, and only when the
\* fade of every element is complete (every opacity 0, no transition running).
C4_FadeCallbackAfterAllFaded ==
    (lastOp.op = "fadeDone" /\ lastOp.cb.kind = "fn") =>
       /\ cbCalls[lastOp.cb.v] = 1
       /\ \A i \in Elems : fadeQueue[i] = <<>> /\ rotateModifiers[i] = 0

\* C5: right after reset() every gradient opacity is the one of construction
\* and every fade opacity is 1, whatever ticks and fades came before.
C5_ResetRestoresInitial ==
    lastOp.op = "reset" =>
       /\ spinLineModifiers = LineInitOpacity(N)
       /\ \A i \in Elems : rotateModifiers[i] = 1

C5_Witness == lastOp.op = "reset" /\ lastOp.dirty

\* C6: outside a fade the gradient opacities, read in angular order, are a
\* cyclic permutation of the sequence assigned at construction.
IsRotation(f, g, n) ==
    \E k \in 0 .. (n - 1) : \A i \in 0 .. (n - 1) : f[i] = g[(i + k) % n]

OutsideFade == \A i \in Elems : rotateModifiers[i] = 1 /\ fadeQueue[i] = <<>>

C6_CyclicPermutation == OutsideFade => IsRotation(Gradient, InitGradient, N)

C6_Witness ==
    /\ lastOp.op = "tick"
    /\ OutsideFade
    /\ Gradient # InitGradient

\* C7 (as claimed): every tick, the first one after a start() included, moves
\* the gradient by exactly one angular step.
C7_EveryTickOneStep ==
    [][lastOp'.op = "tick"
          => \A i \in Elems : Gradient'[(i + 1) % N] = Gradient[i]]_vars

\* C8 (amended): after a tick of the ring widget the element at position 0 is
\* the one that was at position 1, and it holds the opacity that position 0
\* held before the tick (N >= 2).
C8_RotateListTick ==
    [][(widget = "ring" /\ lastOp'.op = "tick" /\ N >= 2)
          => /\ tickOpacityModifiers'[1] = tickOpacityModifiers[2]
             /\ tickOpacity'[tickOpacityModifiers'[1]]
                   = tickOpacity[tickOpacityModifiers[1]]]_vars

\* C8 (as claimed): after a tick the opacity of the element now at position 0
\* equals the opacity that was held at position 1 before the tick.
C8_AsClaimed ==
    [][(widget = "ring" /\ lastOp'.op = "tick" /\ N >= 2)
          => tickOpacity'[tickOpacityModifiers'[1]]
                = tickOpacity[tickOpacityModifiers[2]]]_vars

C8_Witness ==
    /\ widget = "ring"
    /\ lastOp.op = "tick"
    /\ N >= 2
    /\ tickOpacityModifiers[1] # 0

\* C9 (as claimed): stop(cb) leaves the widget stopped with no tick timer
\* live and has called cb exactly once, after the cleanup.
C9_StopCallsBack ==
    (lastOp.op = "stop" /\ lastOp.cb.kind = "fn") =>
       /\ Stopped
       /\ timers = {} /\ timeouts = 0
       /\ cbCalls[lastOp.cb.v] = 1
       /\ ~lastOp.saw

\* C10: stop() on a stopped widget (never started included) raises no error
\* and changes neither the run state, nor the live timers, nor any opacity.
C10_StopIdempotent ==
    [][(lastOp'.op = "stop" /\ Stopped)
          => /\ Stopped'
             /\ UNCHANGED <<spinnerState, showing, timeouts, timers, spinInterval,
                            tickOpacityModifiers, tickOpacity, spinLineModifiers,
                            rotateModifiers, fadeQueue>>
             /\ error' = error]_vars

C10_Witness ==
    /\ lastOp.op = "stop"
    /\ ~lastOp.was
    /\ timers # {} \/ timeouts > 0 \/ nextHandle > 0

\* C11: a tick of the ring widget that fires while the state is OFF schedules
\* no further tick, so each pending timeout fires at most once more and, with
\* no later start(), eventually none is pending.
C11_TickWhileOffEndsChain ==
    /\ [][(widget = "ring" /\ lastOp'.op = "tick" /\ spinnerState = OFF)
             => timeouts' = timeouts - 1]_vars
    /\ (spinnerState = OFF) ~> (timeouts = 0 \/ spinnerState = ON)

C11_Witness ==
    /\ widget = "ring"
    /\ lastOp.op = "tick"
    /\ spinnerState = OFF
    /\ timeouts = 0

\* C12: in every reachable state the ordered collection has length N and holds
\* the N elements made at construction, each exactly once; ticks and lifecycle
\* operations change opacities and, in the ring widget, the order, never the
\* membership.
C12_SameElements ==
    /\ widget = "ring" =>
          /\ Len(tickOpacityModifiers) = N
          /\ \A e \in Elems :
                Cardinality({p \in 1 .. Len(tickOpacityModifiers) :
                                tickOpacityModifiers[p] = e}) = 1
          /\ DOMAIN tickOpacity = Elems
    /\ widget = "line" =>
          /\ DOMAIN spinLineModifiers = Elems
          /\ DOMAIN rotateModifiers = Elems

C12_Witness ==
    /\ widget = "ring"
    /\ N >= 2
    /\ lastOp.op = "tick"
    /\ tickOpacityModifiers # RingInitArray(N)

\* C13: construction with N > 0 makes exactly N ticks, tick i at the angle
\* i * (360 / N) degrees; the N angles are distinct within one full turn and
\* each tick is attached to the render tree exactly once.
C13_Layout ==
    /\ N > 0
    /\ DOMAIN rotation = Elems
    /\ \A i \in Elems : rotation[i] = i * 360
    /\ \A i, j \in Elems :
          i # j => rotation[i] % (360 * N) # rotation[j] % (360 * N)
    /\ \A i \in Elems : rotation[i] < 360 * N
    /\ BagToSet(attached) = Elems
    /\ \A i \in Elems : CopiesIn(i, attached) = 1
    /\ widget = "ring" => Len(tickOpacityModifiers) = N
    /\ widget = "line" => /\ DOMAIN spinLineModifiers = Elems
                          /\ DOMAIN rotateModifiers = Elems

C13_Witness ==
    /\ lastOp.op = "new"
    /\ N = MaxN
    /\ rotation[N - 1] = 360 * (N - 1)
    /\ BagCardinality(attached) = N

\* the state a constructor leaves
Constructing == lastOp.op = "new"

\* the opacities construction gives, by the formulas as written in the claim:
\* ring i/N + 0.1 by 10*N, line pos*pos*0.9 + 0.1 by 10*N*N with
\* pos = 1 - ((N - i) mod N)/N
FollowsFormula ==
    /\ widget = "ring" => \A i \in Elems : tickOpacity[i] = 10 * i + N
    /\ widget = "line" =>
          \A i \in Elems :
             LET p == N - ((N - i) % N)
             IN  spinLineModifiers[i] = 9 * p * p + N * N
    /\ RingInitOpacity(4) = (0 :> 4) @@ (1 :> 14) @@ (2 :> 24) @@ (3 :> 34)

\* C14 as stated: at construction the opacities follow the falloff formula
\* and are non-decreasing in the element index, in both widgets.
C14_AsClaimed ==
    Constructing =>
       /\ FollowsFormula
       /\ \A i, j \in Elems : i < j => Gradient[i] <= Gradient[j]

\* C14: at construction the opacities follow the falloff formula; in the ring
\* widget they are non-decreasing in the element index; in the line widget
\* element 0 has full opacity and the elements 1 .. N-1 rise from the
\* faintest up to it, so the sequence is non-decreasing from index 1 on only.
C14_InitialGradient ==
    Constructing =>
       /\ FollowsFormula
       /\ widget = "ring" =>
             \A i, j \in Elems : i < j => tickOpacity[i] <= tickOpacity[j]
       /\ widget = "line" =>
             /\ spinLineModifiers[0] = 10 * N * N
             /\ \A i, j \in Elems :
                   (1 <= i /\ i < j) => spinLineModifiers[i] < spinLineModifiers[j]
             /\ \A i \in Elems : spinLineModifiers[i] <= spinLineModifiers[0]

C14_Witness ==
    /\ Constructing
    /\ widget = "line"
    /\ N >= 3
    /\ spinLineModifiers[1] < spinLineModifiers[2]
    /\ spinLineModifiers[1] < spinLineModifiers[0]

\* C15 (as claimed): fade(d), called with a duration and no callback, fades
\* every element and then stops the widget without raising an error; nothing
\* is invoked in place of the omitted callback.
C15_FadeDurationOnly ==
    (lastOp.op = "fadeDone" /\ lastOp.cb.kind = "num") => ~error

\* C16 (as claimed): after a start() of the ring widget that found the state
\* OFF exactly one tick timeout chain is live, also when the start() follows
\* a stop() by less than one tick period.
C16_OneChainAfterStart ==
    (widget = "ring" /\ lastOp.op = "start" /\ ~lastOp.was) => timeouts = 1

\* C17 (as claimed): whatever spin() calls were issued, overlapping or not,
\* once the auto-stop of every one of them has fired no tick interval is
\* registered any more, so no opacity changes again.
C17_AllSpinsStopped ==
    (nextHandle > 0 /\ stopTimeouts = EmptyBag) => timers = {}

\* C18 (as claimed): every opacity assigned to a tick element lies in [0, 1],
\* also for the default element count of 12, in both widgets.
C18_OpacityInRange ==
    /\ widget = "ring" =>
          \A i \in Elems : 0 <= tickOpacity[i] /\ tickOpacity[i] <= 10 * N
    /\ widget = "line" =>
          \A i \in Elems :
             /\ 0 <= spinLineModifiers[i]
             /\ spinLineModifiers[i] <= 10 * N * N
             /\ rotateModifiers[i] \in {0, 1}

\* C19: the animation has period N. Ring widget: N consecutive ticks restore
\* the order of the collection and every opacity, and for N >= 2 no smaller
\* positive number of ticks does. Line widget: the opacities computed for the
\* tick counts t and t + N are equal for every element and every t >= 0.
C19_PeriodN ==
    /\ widget = "ring" =>
          LET now == [arr |-> tickOpacityModifiers, op |-> tickOpacity]
          IN  /\ TickTimes(now, N, N) = now
              /\ \A k \in 1 .. (N - 1) :
                    /\ TickTimes(now, N, k).arr # now.arr
                    /\ TickTimes(now, N, k).op # now.op
    /\ widget = "line" =>
          /\ \A i \in Elems : \A tt \in 0 .. (2 * MaxT) :
                SpinLineOpacity(i, tt, N) = SpinLineOpacity(i, tt + N, N)
          /\ \A h \in timers : \A i \in Elems :
                TickOpacity(i, t[h], N) = TickOpacity(i, t[h] + N, N)

C19_Witness ==
    /\ widget = "ring"
    /\ N >= 2
    /\ lastOp.op = "tick"
    /\ tickOpacityModifiers = RingInitArray(N)
    /\ tickOpacity = RingInitOpacity(N)

\* every element of the line widget is faded out
Faded == widget = "line" /\ \A i \in Elems : rotateModifiers[i] = 0

\* C20: in the line widget start(), stop(), spin(), its auto-stop and the
\* tick callbacks leave the fade opacity of every element unchanged; it
\* changes only when a fade completes or on reset(). So once every element is
\* faded out it stays at fade opacity 0 until reset().
C20_FadeOpacityFrame ==
    [][/\ lastOp'.op \in {"start", "stop", "spin", "spinStop", "tick"}
          => rotateModifiers' = rotateModifiers
       /\ rotateModifiers' # rotateModifiers
          => lastOp'.op \in {"fadeDone", "reset"}
       /\ (Faded /\ lastOp'.op # "reset") => Faded']_vars

C20_Witness ==
    /\ Faded
    /\ lastOp.op = "tick"
    /\ LineRunning

====
